---- MODULE Spec2Model ----
(***************************************************************************)
(* Model of gcamp_extractor/FilterSweeper.py: the FilterSweeper session    *)
(* (constructor, from_extractor, the filter_and_threshold callback of      *)
(* sweep_parameters and the finalisation that follows the GUI loop).       *)
(*                                                                         *)
(* Numbers.  Widths, half-widths, median sizes and indices are Python ints *)
(* and are TLA+ integers.  Sigmas and the quantile are Python floats; they *)
(* are fixed-point integers counting 1/Scale (1.5 is 150).                 *)
(* A Python tuple or list is a sequence; Python index i is position i+1.   *)
(* Python's None and "no result yet" are the empty sequence.               *)
(***************************************************************************)
EXTENDS Integers, Sequences, FiniteSets, TLC

VARIABLES
    phase,      \* "new" | "constructed" | "idle" | "terminal", or an exception left
                \* the constructor ("failed") or sweep_parameters ("crashed")
    ext,        \* <<e>>: the prior configuration handed to from_extractor, else <<>>
    heap,       \* object id -> contents of the volume stored in that object
    source,     \* ids of the volumes the source supplied
    stacks,     \* self.stacks: ids of the volumes the session holds
    held,       \* contents of the session's volumes when the session got them
    self,       \* the FilterSweeper attributes that make the ParameterSet
    widgets,    \* the controls: the arguments of filter_and_threshold
    display,    \* the result published to the display layer, <<>> before any
    outcome,    \* what the last callback did: "published" | "error" | "nolayer";
                \* "none" as long as no callback has run
    nSweeps,    \* number of sweep_parameters calls
    nEvents,    \* number of callbacks run because a control changed
    err,        \* the exception that left the constructor or sweep_parameters
    final_params, \* the dict built and printed at line 168-170, <<>> before
    returned    \* the value sweep_parameters returned, <<>> is None

vars == <<phase, ext, heap, source, stacks, held, self, widgets,
          display, outcome, nSweeps, nEvents, err, final_params, returned>>

----------------------------------------------------------------------------
(* Bounds *)

MaxEvents == 2
MaxSweeps == 2
MaxHalf == 1
MaxTimepoints == 2

----------------------------------------------------------------------------
(* Floats *)

Scale == 100

IsNegative(f) == f < 0

\* 0 <= q <= 1
InUnitInterval(q) == 0 <= q /\ q <= Scale

----------------------------------------------------------------------------
(* Python list subscripting and list.index *)

SubscriptInRange(list, i) == (0 - Len(list)) <= i /\ i < Len(list)

\* the index counted from the end of the list
SubscriptFromEnd(list, i) == list[Len(list) - i]

Subscript(list, i) == IF i >= 0 THEN list[i + 1] ELSE list[Len(list) + i + 1]

ListHas(list, v) == \E k \in 1..Len(list) : list[k] = v

RECURSIVE FirstAt(_, _, _)
FirstAt(list, v, k) == IF list[k] = v THEN k ELSE FirstAt(list, v, k + 1)

ListIndex(list, v) == FirstAt(list, v, 1) - 1

----------------------------------------------------------------------------
(* Volumes.  A volume is the sequence of its voxels; heap maps the id of an *)
(* array object to its voxels, so that two names of one object share them. *)

SourceVolume(i) == <<10 * i, 10 * i + 4>>

SourceIds == [i \in 1..MaxTimepoints |-> i]

\* copy.deepcopy of the volumes ids, as new objects after the last one of h
DeepCopyAll(h, ids) ==
    [k \in 1..(Len(h) + Len(ids)) |-> IF k <= Len(h) THEN h[k] ELSE h[ids[k - Len(h)]]]

NewIds(h, n) == [k \in 1..n |-> Len(h) + k]

Prefix(seq, n) == [k \in 1..n |-> seq[k]]

----------------------------------------------------------------------------
(* FilterSweeper.__init__ *)

DefaultMedianSizes == <<1, 3, 5>>

ParamKeys == {"width_x_val", "width_y_val", "width_z_val", "sigma_x", "sigma_y",
              "sigma_z", "median_sizes", "median_index", "quantile"}

\* dict.get(key, default); a dict is its key set and a value for every key
DictGet(params, key, default) ==
    IF key \in params.keys THEN params[key] ELSE default

Construct(params) ==
    [width_x_val  |-> DictGet(params, "width_x_val", 3),
     width_y_val  |-> DictGet(params, "width_y_val", 3),
     width_z_val  |-> DictGet(params, "width_z_val", 3),
     sigma_x      |-> DictGet(params, "sigma_x", 1 * Scale),
     sigma_y      |-> DictGet(params, "sigma_y", 1 * Scale),
     sigma_z      |-> DictGet(params, "sigma_z", 1 * Scale),
     median_sizes |-> DictGet(params, "median_sizes", DefaultMedianSizes),
     median_index |-> DictGet(params, "median_index", 1),
     quantile     |-> DictGet(params, "quantile", (9 * Scale) \div 10),
     gaussian     |-> <<>>,
     median       |-> <<>>]

\* params=None becomes the empty dict
EmptyDict ==
    [keys |-> {}, width_x_val |-> 0, width_y_val |-> 0, width_z_val |-> 0,
     sigma_x |-> 0, sigma_y |-> 0, sigma_z |-> 0, median_sizes |-> <<>>,
     median_index |-> 0, quantile |-> 0]

NormalizeParams(paramsArg) == IF paramsArg = <<>> THEN EmptyDict ELSE paramsArg[1]

----------------------------------------------------------------------------
(* FilterSweeper.from_extractor.  The prior configuration e is a record:   *)
(* has_gaussian, has_quantile and has_median say which attributes exist.   *)

Unbound ==
    [raised |-> "", bound |-> FALSE, width_x_val |-> 0, width_y_val |-> 0,
     width_z_val |-> 0, sigma_x |-> 0, sigma_y |-> 0, sigma_z |-> 0]

Raise(exception) == [Unbound EXCEPT !.raised = exception]

\* the except branch, lines 78-84
GaussianFallback(e) ==
    IF ~e.has_gaussian THEN Raise("AttributeError")
    ELSE IF Len(e.gaussian) < 6 THEN Raise("IndexError")
    ELSE [raised |-> "", bound |-> TRUE,
          width_x_val |-> 1, width_y_val |-> 1, width_z_val |-> 1,
          sigma_x |-> e.gaussian[2 + 1],
          sigma_y |-> e.gaussian[3 + 1],
          sigma_z |-> e.gaussian[5 + 1]]

\* lines 67-70
DecodeUniformXY(g) ==
    [raised |-> "", bound |-> TRUE,
     width_x_val |-> g[0 + 1], width_y_val |-> g[0 + 1], width_z_val |-> g[2 + 1],
     sigma_x |-> g[1 + 1], sigma_y |-> g[1 + 1], sigma_z |-> g[3 + 1]]

\* the 6-tuple read in the order of the 4-tuple's positions
DecodePerAxisMisordered(g) ==
    [raised |-> "", bound |-> TRUE,
     width_x_val |-> g[0 + 1], width_y_val |-> g[1 + 1], width_z_val |-> g[4 + 1],
     sigma_x |-> g[3 + 1], sigma_y |-> g[2 + 1], sigma_z |-> g[5 + 1]]

\* lines 72-77
DecodePerAxis(g) ==
    [raised |-> "", bound |-> TRUE,
     width_x_val |-> g[0 + 1], width_y_val |-> g[1 + 1], width_z_val |-> g[4 + 1],
     sigma_x |-> g[2 + 1], sigma_y |-> g[3 + 1], sigma_z |-> g[5 + 1]]

\* lines 65-84: no branch of the try assigns for an arity other than 4 or 6,
\* and the try raises only when e has no gaussian attribute
DecodeGaussian(e) ==
    IF ~e.has_gaussian THEN GaussianFallback(e)
    ELSE IF Len(e.gaussian) = 4 THEN DecodeUniformXY(e.gaussian)
    ELSE IF Len(e.gaussian) = 6 THEN DecodePerAxis(e.gaussian)
    ELSE Unbound

\* lines 85-88
DecodeQuantile(e) == IF e.has_quantile THEN e.quantile ELSE (99 * Scale) \div 100

\* lines 89-93
DecodeMedianIndex(e) ==
    IF e.has_median /\ ListHas(DefaultMedianSizes, e.median)
    THEN ListIndex(DefaultMedianSizes, e.median)
    ELSE 1

\* lines 65-106: the exception that leaves from_extractor, or the params dict
FromExtractorParams(e) ==
    LET g == DecodeGaussian(e) IN
    IF g.raised # "" THEN [raised |-> g.raised, params |-> EmptyDict]
    ELSE IF ~g.bound THEN [raised |-> "UnboundLocalError", params |-> EmptyDict]
    ELSE [raised |-> "",
          params |-> [keys |-> ParamKeys,
                      width_x_val |-> g.width_x_val,
                      width_y_val |-> g.width_y_val,
                      width_z_val |-> g.width_z_val,
                      sigma_x |-> g.sigma_x,
                      sigma_y |-> g.sigma_y,
                      sigma_z |-> g.sigma_z,
                      quantile |-> DecodeQuantile(e),
                      median_sizes |-> DefaultMedianSizes,
                      median_index |-> DecodeMedianIndex(e)]]

----------------------------------------------------------------------------
(* sweep_parameters: the controls and the filter_and_threshold callback *)

\* line 141: the defaults of the callback's arguments, the controls' first positions
InitialControls(s) ==
    [quantile     |-> s.quantile,
     median_index |-> s.median_index,
     width_x      |-> (s.width_x_val - 1) \div 2,
     width_y      |-> (s.width_y_val - 1) \div 2,
     width_z      |-> (s.width_z_val - 1) \div 2,
     sigma_x      |-> s.sigma_x,
     sigma_y      |-> s.sigma_y,
     sigma_z      |-> s.sigma_z]

\* width_y is rebuilt from the x control
StoreParametersCopiedX(s, w) ==
    [s EXCEPT !.quantile = w.quantile,
              !.median_index = w.median_index,
              !.width_x_val = 2 * w.width_x + 1,
              !.width_y_val = 2 * w.width_x + 1,
              !.width_z_val = 2 * w.width_z + 1,
              !.sigma_x = w.sigma_x,
              !.sigma_y = w.sigma_y,
              !.sigma_z = w.sigma_z]

\* the stored width is the half-width doubled, without the added one
StoreParametersEven(s, w) ==
    [s EXCEPT !.quantile = w.quantile,
              !.median_index = w.median_index,
              !.width_x_val = 2 * w.width_x,
              !.width_y_val = 2 * w.width_y + 1,
              !.width_z_val = 2 * w.width_z + 1,
              !.sigma_x = w.sigma_x,
              !.sigma_y = w.sigma_y,
              !.sigma_z = w.sigma_z]

\* lines 146-153
StoreParameters(s, w) ==
    [s EXCEPT !.quantile = w.quantile,
              !.median_index = w.median_index,
              !.width_x_val = 2 * w.width_x + 1,
              !.width_y_val = 2 * w.width_y + 1,
              !.width_z_val = 2 * w.width_z + 1,
              !.sigma_x = w.sigma_x,
              !.sigma_y = w.sigma_y,
              !.sigma_z = w.sigma_z]

\* the three widths first, then the three sigmas
GaussianTupleWidthsFirst(s) ==
    <<s.width_x_val, s.width_y_val, s.width_z_val, s.sigma_x, s.sigma_y, s.sigma_z>>

\* the tuple of lines 155 and 168
GaussianTuple(s) ==
    <<s.width_x_val, s.width_y_val, s.sigma_x, s.sigma_y, s.width_z_val, s.sigma_z>>

\* gaussian3d refuses a non-positive width and a negative sigma
GaussianRejects(g) ==
    \/ g[1] <= 0 \/ g[2] <= 0 \/ g[5] <= 0
    \/ IsNegative(g[3]) \/ IsNegative(g[4]) \/ IsNegative(g[6])

\* numpy.quantile refuses a q that is not in [0, 1]
QuantileRejects(q) == ~InUnitInterval(q)

\* gaussian3d smooths the array it is given, in place; width 1 on every axis
\* leaves each voxel as it is
Smoothed(volume, g) ==
    IF g[1] = 1 /\ g[2] = 1 /\ g[5] = 1 THEN volume
    ELSE [k \in 1..Len(volume) |-> (volume[1] + volume[Len(volume)]) \div 2]

\* the callback filters the session's volume itself
FilterTargetAliased(id) == id

\* line 155: copy.deepcopy(stack) is a new object, none of the heap's
FilterTarget(id) == 0

\* lines 154-158: "" when every volume is filtered, else the exception
RecomputeError(s, ids) ==
    IF Len(ids) = 0 THEN ""
    ELSE IF GaussianRejects(GaussianTuple(s)) THEN "InvalidParameter"
    ELSE IF ~SubscriptInRange(s.median_sizes, s.median_index) THEN "IndexError"
    ELSE IF QuantileRejects(s.quantile) THEN "ValueError"
    ELSE ""

\* how many gaussian3d calls ran to their end
FilteredCount(s, ids) ==
    IF Len(ids) = 0 \/ GaussianRejects(GaussianTuple(s)) THEN 0
    ELSE IF RecomputeError(s, ids) # "" THEN 1
    ELSE Len(ids)

\* the heap after the callback's gaussian3d calls
HeapAfterFilter(h, s, ids) ==
    [k \in 1..Len(h) |->
        IF \E j \in 1..FilteredCount(s, ids) : FilterTarget(ids[j]) = k
        THEN Smoothed(h[k], GaussianTuple(s))
        ELSE h[k]]

\* line 159: what the callback returns to the display layer
Published(h, s, ids) ==
    [gaussian |-> GaussianTuple(s),
     median   |-> IF Len(ids) = 0 THEN <<>> ELSE <<Subscript(s.median_sizes, s.median_index)>>,
     quantile |-> s.quantile,
     volumes  |-> [j \in 1..Len(ids) |-> h[ids[j]]]]

\* line 168
ResultRecord(s) ==
    [gaussian |-> GaussianTuple(s),
     median   |-> Subscript(s.median_sizes, s.median_index),
     quantile |-> s.quantile]

----------------------------------------------------------------------------
(* Inputs *)

\* one key of the params dict given by the caller
Override(key, value) == [EmptyDict EXCEPT !.keys = {key}, ![key] = value]

\* the params dicts given to the constructor; every value is one the control
\* of lines 132-139 made from it can hold
ParamsArgs ==
    {<<>>, <<EmptyDict>>}
    \cup {<<Override(k, 4)>> : k \in {"width_x_val", "width_z_val"}}
    \cup {<<Override("width_y_val", 1)>>, <<Override("sigma_x", (5 * Scale) \div 2)>>,
          <<Override("median_index", 2)>>}
    \cup {<<Override("median_sizes", sizes)>> : sizes \in {<<3, 5, 7>>, <<1, 3>>}}
    \cup {<<[Override("median_sizes", <<1, 3>>) EXCEPT
                !.keys = {"median_sizes", "median_index"}, !.median_index = 2]>>,
          <<Override("quantile", Scale \div 2)>>}

Extractor(g, q, m) ==
    [has_gaussian |-> g # <<>>, gaussian |-> IF g = <<>> THEN <<>> ELSE g[1],
     has_quantile |-> q # <<>>, quantile |-> IF q = <<>> THEN 0 ELSE q[1],
     has_median   |-> m # <<>>, median   |-> IF m = <<>> THEN 0 ELSE m[1]]

PriorWidths == {3, 4}
PriorSigmas == {Scale, (3 * Scale) \div 2}

Tuples4 == {<<w, s, wz, sz>> : w \in PriorWidths, s \in PriorSigmas,
                               wz \in PriorWidths, sz \in PriorSigmas}

Tuples6 == {<<wx, wy, sx, sy, wz, sz>> :
                wx \in PriorWidths, wy \in PriorWidths, sx \in PriorSigmas,
                sy \in PriorSigmas, wz \in PriorWidths, sz \in PriorSigmas}

\* the arities 0..3 and 5
OtherArities == {Prefix(t, n) : t \in {<<3, 3, Scale, Scale, 5, 2 * Scale>>},
                                n \in {0, 1, 2, 3, 5}}

PriorGaussians == {<<>>} \cup {<<t>> : t \in Tuples4 \cup Tuples6 \cup OtherArities}
PriorQuantiles == {<<>>, <<(95 * Scale) \div 100>>}
PriorMedians == {<<>>, <<1>>, <<5>>, <<7>>}

\* every prior configuration of the decoding specification
DecodeConfigs ==
    {Extractor(g, q, m) : g \in PriorGaussians, q \in PriorQuantiles, m \in PriorMedians}

\* the prior configurations sessions are swept from
SweepConfigs ==
    {Extractor(g, <<(95 * Scale) \div 100>>, <<5>>) :
        g \in {<<>>, <<<<3, (3 * Scale) \div 2, 5, 2 * Scale>>>>,
               <<<<3, 5, Scale, (3 * Scale) \div 2, 7, 2 * Scale>>>>,
               <<<<4, Scale, 4, Scale>>>>, <<<<3, Scale, 5>>>>}}
    \cup {Extractor(<<<<3, Scale, 3, Scale>>>>, <<>>, <<>>)}

\* line 132: the quantile slider runs from 0.5 to 1
QuantileInputs == {Scale \div 2, Scale}

\* lines 137-139: the sigma sliders run from the default minimum 0 to 6
SigmaMax == 6

SigmaInputs == {0, SigmaMax * Scale}

\* line 133: the median index slider runs from 0 to 2
MedianIndexMax == 2

MedianIndexInputs == 0..MedianIndexMax

\* lines 134-136: the half-width sliders run from 0 to 24
HalfWidthMax == 24

HalfWidthInputs == {0, MaxHalf, HalfWidthMax}

ControlInputs(field) ==
    CASE field = "quantile" -> QuantileInputs
      [] field = "median_index" -> MedianIndexInputs
      [] field \in {"width_x", "width_y", "width_z"} -> HalfWidthInputs
      [] OTHER -> SigmaInputs

ControlFields == {"quantile", "median_index", "width_x", "width_y", "width_z",
                  "sigma_x", "sigma_y", "sigma_z"}

----------------------------------------------------------------------------
(* The state machine *)

Init ==
    /\ phase = "new"
    /\ ext = <<>>
    /\ heap = [i \in 1..MaxTimepoints |-> SourceVolume(i)]
    /\ source = SourceIds
    /\ stacks = <<>>
    /\ held = <<>>
    /\ self = <<>>
    /\ widgets = <<>>
    /\ display = <<>>
    /\ outcome = "none"
    /\ nSweeps = 0
    /\ nEvents = 0
    /\ err = ""
    /\ final_params = <<>>
    /\ returned = <<>>

\* FilterSweeper(stacks, params): line 36 keeps the caller's list, lines 37-51
FilterSweeper(n, paramsArg) ==
    /\ phase = "new"
    /\ phase' = "constructed"
    /\ stacks' = Prefix(source, n)
    /\ held' = [j \in 1..n |-> heap[source[j]]]
    /\ self' = Construct(NormalizeParams(paramsArg))
    /\ UNCHANGED <<ext, heap, source, widgets, display, outcome, nSweeps, nEvents,
                   err, final_params, returned>>

\* FilterSweeper.from_extractor(e, timepoints), lines 65-114
from_extractor(e, timepoints) ==
    /\ phase = "new"
    /\ ext' = <<e>>
    /\ LET r == FromExtractorParams(e) IN
       IF r.raised # ""
       THEN /\ phase' = "failed"
            /\ err' = r.raised
            /\ UNCHANGED <<heap, stacks, held, self>>
       ELSE /\ phase' = "constructed"
            /\ heap' = DeepCopyAll(heap, Prefix(source, timepoints))
            /\ stacks' = NewIds(heap, timepoints)
            /\ held' = [j \in 1..timepoints |-> heap[source[j]]]
            /\ self' = Construct(r.params)
            /\ err' = err
    /\ UNCHANGED <<source, widgets, display, outcome, nSweeps, nEvents,
                   final_params, returned>>

\* lines 143-159 with a layer: the controls w are stored, then every volume is
\* filtered; the result is published unless a step raised
Callback(w) ==
    /\ self' = StoreParameters(self, w)
    /\ heap' = HeapAfterFilter(heap, self', stacks)
    /\ IF RecomputeError(self', stacks) = ""
       THEN /\ outcome' = "published"
            /\ display' = <<Published(heap', self', stacks)>>
       ELSE /\ outcome' = "error"
            /\ display' = display

\* sweep_parameters up to the GUI loop, lines 121-166, on a new session or on
\* one whose earlier sweep ended.  The controls start at the defaults of line
\* 141.  Line 164 reads the layer named after the callback's result, which is
\* there only when the GUI library already ran the callback once with these
\* controls while the GUI was set up.  When the library did not, or when that
\* callback raised, sweep_parameters ends with the exception, before the loop
\* and lines 168-170.
sweep_parameters ==
    /\ phase \in {"constructed", "terminal", "crashed"}
    /\ nSweeps < MaxSweeps
    /\ nSweeps' = nSweeps + 1
    /\ widgets' = InitialControls(self)
    /\ \/ /\ Callback(widgets')
          /\ IF RecomputeError(self', stacks) = ""
             THEN phase' = "idle" /\ err' = err
             ELSE /\ phase' = "crashed"
                  /\ err' \in {RecomputeError(self', stacks), "KeyError"}
       \/ /\ phase' = "crashed"
          /\ err' = "KeyError"
          /\ UNCHANGED <<self, heap, display, outcome>>
    /\ UNCHANGED <<ext, source, stacks, held, nEvents, final_params, returned>>

\* a control changes and filter_and_threshold runs with the controls' values
\* (auto_call, line 131); line 143 skips the body when there is no layer.  An
\* exception ends this callback only: the GUI loop goes on to the next event.
filter_and_threshold(field, value, layer) ==
    /\ phase = "idle"
    /\ nEvents < MaxEvents
    /\ nEvents' = nEvents + 1
    /\ widgets' = [widgets EXCEPT ![field] = value]
    /\ IF ~layer
       THEN /\ outcome' = "nolayer"
            /\ UNCHANGED <<self, heap, display>>
       ELSE Callback(widgets')
    /\ UNCHANGED <<phase, ext, source, stacks, held, nSweeps, err, final_params,
                   returned>>

\* the window closes: lines 168-170, and the function ends without a return
sweep_parameters_close ==
    /\ phase = "idle"
    /\ IF SubscriptInRange(self.median_sizes, self.median_index)
       THEN /\ phase' = "terminal"
            /\ final_params' = <<ResultRecord(self)>>
            /\ self' = [self EXCEPT !.gaussian = <<ResultRecord(self).gaussian>>,
                                    !.median = <<ResultRecord(self).median>>]
            /\ err' = err
       ELSE /\ phase' = "crashed"
            /\ err' = "IndexError"
            /\ UNCHANGED <<final_params, self>>
    /\ returned' = <<>>
    /\ UNCHANGED <<ext, heap, source, stacks, held, widgets, display, outcome, nSweeps,
                   nEvents>>

Next ==
    \/ \E p \in ParamsArgs : FilterSweeper(MaxTimepoints, p)
    \/ \E e \in SweepConfigs : from_extractor(e, MaxTimepoints)
    \/ sweep_parameters
    \/ \E f \in ControlFields, layer \in BOOLEAN :
          \E v \in ControlInputs(f) : filter_and_threshold(f, v, layer)
    \/ sweep_parameters_close

Spec == Init /\ [][Next]_vars

\* from_extractor alone, over every prior configuration
NextDecode == \E e \in DecodeConfigs, t \in 0..MaxTimepoints : from_extractor(e, t)

SpecDecode == Init /\ [][NextDecode]_vars

----------------------------------------------------------------------------
(* Properties *)

HasSession == phase \in {"constructed", "idle", "terminal", "crashed"}

OddPositive(w) == w > 0 /\ w % 2 = 1

WidthsOddPositive(s) ==
    /\ OddPositive(s.width_x_val)
    /\ OddPositive(s.width_y_val)
    /\ OddPositive(s.width_z_val)

\* a callback of the session has run with a layer and stored the controls:
\* the first callback of a session is the one of the GUI set-up, which has one
HasStored == outcome # "none"

\* the last callback ran with a layer, and the window is still open
JustStored == phase = "idle" /\ outcome \in {"published", "error"}

\* C1: once the window is closed and the record is built, sweep_parameters
\* has returned that record, and its gaussian, median and quantile are those
\* of the ParameterSet the last callback stored.
C1_ClosedReturnsRecord ==
    phase = "terminal" =>
        /\ final_params = <<ResultRecord(self)>>
        /\ returned = final_params

\* C2: in every state of a session, from its creation by either constructor
\* to its finalisation, width_x, width_y and width_z are odd and positive.
C2_WidthsOddPositive == HasSession => WidthsOddPositive(self)

\* C2, amended: once a callback of the session has stored the controls (the
\* first does so while sweep_parameters sets the GUI up), width_x, width_y and
\* width_z are odd and positive in every later state, the close included, and
\* so are the widths of every published result and of every record.
C2_WidthsOddPositiveOnceStored ==
    /\ (HasSession /\ HasStored) => WidthsOddPositive(self)
    /\ phase \in {"idle", "terminal"} => WidthsOddPositive(self)
    /\ Len(display) = 1 =>
          \A k \in {1, 2, 5} : OddPositive(display[1].gaussian[k])
    /\ Len(final_params) = 1 =>
          \A k \in {1, 2, 5} : OddPositive(final_params[1].gaussian[k])

\* a session decoded from a tuple of even widths is swept and holds width 3
C2_Witness ==
    /\ phase = "idle" /\ nEvents = 0 /\ HasStored
    /\ Len(ext) = 1 /\ ext[1].gaussian = <<4, Scale, 4, Scale>>
    /\ self.width_x_val = 3 /\ self.width_y_val = 3 /\ self.width_z_val = 3
    /\ display[1].gaussian[1] = 3

\* C3: from_extractor on a prior 4-tuple g creates a session with
\* width_x = width_y = g[0], sigma_x = sigma_y = g[1], width_z = g[2],
\* sigma_z = g[3]; on a prior 6-tuple, one with width_x = g[0], width_y = g[1],
\* sigma_x = g[2], sigma_y = g[3], width_z = g[4], sigma_z = g[5].
C3_DecodeByArity ==
    (Len(ext) = 1 /\ ext[1].has_gaussian) =>
        LET g == ext[1].gaussian IN
        /\ Len(g) = 4 =>
              /\ phase = "constructed"
              /\ self.width_x_val = g[1] /\ self.width_y_val = g[1]
              /\ self.sigma_x = g[2] /\ self.sigma_y = g[2]
              /\ self.width_z_val = g[3] /\ self.sigma_z = g[4]
        /\ Len(g) = 6 =>
              /\ phase = "constructed"
              /\ self.width_x_val = g[1] /\ self.width_y_val = g[2]
              /\ self.sigma_x = g[3] /\ self.sigma_y = g[4]
              /\ self.width_z_val = g[5] /\ self.sigma_z = g[6]

\* a session decoded from a 6-tuple whose x and y entries differ
C3_Witness ==
    /\ phase = "constructed" /\ Len(ext) = 1
    /\ Len(ext[1].gaussian) = 6
    /\ self.width_x_val # self.width_y_val
    /\ self.sigma_x # self.sigma_y
    /\ self.width_z_val # self.width_x_val

GaussianUndecodable(e) == ~e.has_gaussian \/ Len(e.gaussian) \notin {4, 6}

MedianUndecodable(e) == ~e.has_median \/ e.median \notin {1, 3, 5}

\* C4: from_extractor on a prior configuration whose gaussian is missing or
\* of an arity other than 4 and 6, whose quantile is missing, or whose median
\* is missing or not one of 1, 3, 5, raises nothing and creates a session
\* holding the fallback for what it could not decode: width 1 on every axis,
\* quantile 0.99, median index 1.
C4_DecodingFailuresNonFatal ==
    (Len(ext) = 1 /\ (\/ GaussianUndecodable(ext[1])
                      \/ ~ext[1].has_quantile
                      \/ MedianUndecodable(ext[1]))) =>
        /\ phase = "constructed"
        /\ GaussianUndecodable(ext[1]) =>
              self.width_x_val = 1 /\ self.width_y_val = 1 /\ self.width_z_val = 1
        /\ ~ext[1].has_quantile => self.quantile = (99 * Scale) \div 100
        /\ MedianUndecodable(ext[1]) => self.median_index = 1

\* the value the event put on control f breaks the control's domain
ViolatesDomain(f, v) ==
    CASE f = "quantile" -> ~InUnitInterval(v)
      [] f = "median_index" -> v \notin 0..(Len(self.median_sizes) - 1)
      [] f \in {"width_x", "width_y", "width_z"} -> 2 * v + 1 <= 0
      [] OTHER -> IsNegative(v)

\* C5: an event that carries a non-positive width, a negative sigma, a
\* quantile outside [0,1] or a median index out of range fails, and leaves the
\* ParameterSet and the published result as they were.
C5_InvalidEventChangesNothing ==
    [][(/\ phase = "idle"
        /\ nEvents' = nEvents + 1
        /\ outcome' # "nolayer"
        /\ \E f \in ControlFields :
              widgets'[f] # widgets[f] /\ ViolatesDomain(f, widgets'[f]))
       => (outcome' = "error" /\ self' = self /\ display' = display)]_vars

\* C6: a recomputation that filtered volumes and a finalisation that built a
\* record did so with a median index in 0..2, and the size they used is 1, 3,
\* 5 for index 0, 1, 2.
C6_MedianIndexSelection ==
    /\ (JustStored /\ outcome = "published") =>
          /\ self.median_index \in 0..2
          /\ display[1].median = <<2 * self.median_index + 1>>
    /\ phase = "terminal" =>
          /\ self.median_index \in 0..2
          /\ final_params[1].median = 2 * self.median_index + 1

\* C6, amended: the size is the entry of the session's median_sizes list at
\* the median index, in the recomputation and in the record; with the default
\* list [1, 3, 5] that is 1, 3, 5 for index 0, 1, 2.  The index a callback
\* stores is one of 0, 1, 2.  An index at or past the end of a shorter list
\* given by the caller selects no size: the recomputation publishes nothing
\* and no record is built.
C6_MedianIndexSelectsListEntry ==
    /\ (JustStored /\ outcome = "published") =>
          /\ self.median_index \in 0..(Len(self.median_sizes) - 1)
          /\ display[1].median = <<self.median_sizes[self.median_index + 1]>>
          /\ self.median_sizes = <<1, 3, 5>> =>
                display[1].median = <<2 * self.median_index + 1>>
    /\ phase = "terminal" =>
          /\ self.median_index \in 0..(Len(self.median_sizes) - 1)
          /\ final_params[1].median = self.median_sizes[self.median_index + 1]
          /\ self.median_sizes = <<1, 3, 5>> =>
                final_params[1].median = 2 * self.median_index + 1
    /\ (HasSession /\ HasStored) => self.median_index \in 0..MedianIndexMax
    /\ (JustStored /\ self.median_index >= Len(self.median_sizes)) => outcome = "error"

\* the default list with index 2 stored by an event, published and recorded
C6_Witness ==
    /\ phase = "terminal" /\ nEvents >= 1
    /\ self.median_sizes = <<1, 3, 5>>
    /\ widgets.median_index = 2
    /\ display[1].median = <<5>>
    /\ final_params[1].median = 5

\* C7: every volume the source supplied holds the voxels it was loaded with,
\* and every volume of the session the voxels it had when the session got it.
C7_VolumesNeverMutated ==
    /\ \A i \in 1..Len(source) : heap[source[i]] = SourceVolume(i)
    /\ \A j \in 1..Len(stacks) : heap[stacks[j]] = held[j]

\* a session on the caller's own volumes has published a blurred result
\* after an event and is closed
C7_Witness ==
    /\ phase = "terminal" /\ Len(ext) = 0
    /\ Len(stacks) = MaxTimepoints /\ stacks[1] = source[1]
    /\ Len(display) = 1 /\ display[1].gaussian[1] > 1
    /\ nEvents >= 1 /\ outcome = "published"

\* C8: after a callback that ran with half-widths hx, hy, hz >= 0 on the
\* controls, the stored widths are 2*hx+1, 2*hy+1, 2*hz+1, each odd and at
\* least 1, and a result it published was blurred with these widths.
C8_WidthNormalization ==
    (JustStored /\ widgets.width_x >= 0 /\ widgets.width_y >= 0 /\ widgets.width_z >= 0) =>
        /\ self.width_x_val = 2 * widgets.width_x + 1
        /\ self.width_y_val = 2 * widgets.width_y + 1
        /\ self.width_z_val = 2 * widgets.width_z + 1
        /\ WidthsOddPositive(self)
        /\ outcome = "published" =>
              /\ display[1].gaussian[1] = 2 * widgets.width_x + 1
              /\ display[1].gaussian[2] = 2 * widgets.width_y + 1
              /\ display[1].gaussian[5] = 2 * widgets.width_z + 1

\* a result was published after events put the half-widths at the slider's
\* maximum on x and at 0 on y
C8_Witness ==
    /\ JustStored /\ outcome = "published" /\ nEvents = 2
    /\ widgets.width_x = HalfWidthMax /\ widgets.width_y = 0
    /\ self.width_x_val = 2 * HalfWidthMax + 1 /\ self.width_y_val = 1
    /\ display[1].gaussian[1] = 2 * HalfWidthMax + 1

\* from_extractor on a configuration holding the record R, sweep_parameters
\* with its one callback on the untouched controls, and the close:
\* <<record>>, or <<>> when one of the steps raises
Reseeded(R) ==
    LET e == Extractor(<<R.gaussian>>, <<R.quantile>>, <<R.median>>)
        r == FromExtractorParams(e)
        s0 == Construct(r.params)
        s1 == StoreParameters(s0, InitialControls(s0))
    IN  IF r.raised # "" THEN <<>>
        ELSE IF RecomputeError(s1, Prefix(source, 1)) # "" THEN <<>>
        ELSE IF ~SubscriptInRange(s1.median_sizes, s1.median_index) THEN <<>>
        ELSE <<ResultRecord(s1)>>

\* C10: a record finalized by a session with the sizes [1, 3, 5] comes back
\* unchanged from a session seeded with it through from_extractor, recomputed
\* once with untouched controls and closed.  Every session that reaches its
\* close has stored the controls at least once.
C10_RoundTrip ==
    (phase = "terminal" /\ self.median_sizes = DefaultMedianSizes) =>
        /\ HasStored
        /\ Reseeded(final_params[1]) = final_params

\* a closed session that began with even widths and stored an event that
\* moved the median index, a sigma or a half-width
C10_Witness ==
    /\ phase = "terminal" /\ nEvents >= 1 /\ outcome = "published"
    /\ self.median_sizes = DefaultMedianSizes
    /\ Len(ext) = 1 /\ ext[1].gaussian = <<4, Scale, 4, Scale>>
    /\ self.median_index = 0
    /\ self.width_x_val = 3
    /\ final_params[1].gaussian # <<3, 3, Scale, Scale, 3, Scale>>

====
